---- MODULE Spec2Model ----
(***************************************************************************)
(* The Montandon STAC reporting scripts (Analysis_montandon/*.py):         *)
(*   - the Time Partitioners  (generate_time_bins, generate_time_chunks),  *)
(*   - the Paginated Fetchers (count_items_manually, fetch_time_chunk,     *)
(*     fetch_counts_for_bin, fetch_count_for_bin),                         *)
(*   - the Parallel Dispatcher and the Aggregator/Exporter of main().      *)
(*                                                                         *)
(* count_events_per_collection.py is modelled with them.                   *)
(*                                                                         *)
(* Three specifications share the module:                                  *)
(*   SpecTime   the partitioners run against a wall clock,                 *)
(*   SpecFetch  one paginating fetch task, request by request,             *)
(*   Spec       a whole script run: list, dispatch, collect, export.       *)
(***************************************************************************)
EXTENDS Integers, Sequences, FiniteSets, TLC

VARIABLES
    \* ---- SpecTime ----
    now,            \* the wall clock, <<ordinal day, second of day>>
    partitioner,    \* which script's Time Partitioner is run
    runs,           \* completed partitioner runs: [at, bins]
    \* ---- SpecFetch ----
    fetcher,        \* which paginating fetcher the task runs
    chain,          \* the server's page chain for the task's query
    task,           \* the task's local variables and, once returned, its result
    requests,       \* the requests sent so far: [page, ok] (history)
    \* ---- Spec ----
    script,         \* which script runs
    server,         \* what the API holds: listing and per-collection data
    pc,             \* position of main()
    collections,    \* the Collection Lister's result
    time_bins,      \* the Time Partitioner's result
    pending,        \* submitted futures not yet yielded by as_completed
    finished,       \* the futures a worker has run: task -> urls it requested
    collected,      \* the futures as_completed yielded, in order: [task, kind] (history)
    all_results,    \* rows appended by the collecting loop (discovery order)
    combined,       \* example_3: combined_counter
    errors,         \* example_3: errors list of the collecting loop
    errorLog,       \* example_3: ERROR_FILE as written by the tasks
    workbook        \* the output file: sheet name -> table, or NoFile

timeVars  == <<now, partitioner, runs>>
fetchVars == <<fetcher, chain, task, requests>>
runVars   == <<script, server, pc, collections, time_bins, pending, finished,
               collected, all_results, combined, errors, errorLog, workbook>>
vars      == <<timeVars, fetchVars, runVars>>

None == "None"

(***************************************************************************)
(* Calendar arithmetic of datetime (proleptic Gregorian ordinals).         *)
(***************************************************************************)
\* Number of days before January 1st of year y (datetime._days_before_year).
DaysBeforeYear(y) ==
    LET p == y - 1 IN p * 365 + (p \div 4) - (p \div 100) + (p \div 400)

\* Ordinal of y-01-01 and of y-12-31.
Jan1(y)  == DaysBeforeYear(y) + 1
Dec31(y) == DaysBeforeYear(y + 1)

\* The year an ordinal day falls in (datetime.year).
YearOf(d) ==
    CHOOSE y \in (d \div 366)..((d \div 365) + 1) : Jan1(y) <= d /\ d <= Dec31(y)

SecondsPerDay == 24 * 60 * 60

\* An instant is <<ordinal day, second of day>>; the scripts format and
\* parse instants with "%Y-%m-%dT%H:%M:%SZ", i.e. to the second.
Before(a, b)   == a[1] < b[1] \/ (a[1] = b[1] /\ a[2] < b[2])
AtOrBefore(a, b) == a = b \/ Before(a, b)
MinInstant(a, b) == IF Before(b, a) THEN b ELSE a
NextSecond(a) ==
    IF a[2] + 1 = SecondsPerDay THEN <<a[1] + 1, 0>> ELSE <<a[1], a[2] + 1>>
\* datetime + timedelta(days = n)
PlusDays(a, n) == <<a[1] + n, a[2]>>

\* f"{y}-01-01T00:00:00Z" and f"{y}-12-31T23:59:59Z"
StartOfYear(y) == <<Jan1(y), 0>>
EndOfYear(y)   == <<Dec31(y), SecondsPerDay - 1>>

(***************************************************************************)
(* Strings: a label is the sequence of its character codes, so that        *)
(* sorted() on labels is the lexicographic order Python uses.              *)
(***************************************************************************)
RECURSIVE Digits(_)
Digits(n) == IF n < 10 THEN <<48 + n>> ELSE Digits(n \div 10) \o <<48 + (n % 10)>>

\* f"{a}-{b}"
Label(a, b) == Digits(a) \o <<45>> \o Digits(b)

\* s < t for Python str
RECURSIVE StrLess(_, _)
StrLess(s, t) ==
    IF t = <<>> THEN FALSE
    ELSE IF s = <<>> THEN TRUE
    ELSE IF s[1] # t[1] THEN s[1] < t[1]
    ELSE StrLess(Tail(s), Tail(t))

(***************************************************************************)
(* Time Partitioners.                                                      *)
(***************************************************************************)
\* example_5.py configuration
START_YEAR     == 1800
INTERVAL_YEARS == 50
\* example_3_optimized.py configuration
START_YEAR_USGS == 1934
YEARS_PER_CHUNK == 5

\* example_5.generate_time_bins: the while loop from current_year on.
RECURSIVE TimeBinsFrom(_, _, _)
TimeBinsFrom(current_year, interval, end_year) ==
    IF current_year <= end_year
    THEN LET bin_start == current_year
             bin_end   == IF current_year + interval - 1 > end_year
                          THEN end_year
                          ELSE current_year + interval - 1
         IN  <<[label          |-> Label(bin_start, bin_end),
                start_datetime |-> StartOfYear(bin_start),
                end_datetime   |-> EndOfYear(bin_end)]>>
             \o TimeBinsFrom(current_year + interval, interval, end_year)
    ELSE <<>>

\* example_5.generate_time_bins(start_year, interval), run at instant t.
generate_time_bins(start_year, interval, t) ==
    TimeBinsFrom(start_year, interval, YearOf(t[1]))

\* count_events_by_year.generate_time_bins: for year in range(from, to, 100)
RECURSIVE CenturyBins(_, _)
CenturyBins(year, to) ==
    IF year < to
    THEN <<[label |-> Label(year, year + 99), start |-> year, end |-> year + 99]>>
         \o CenturyBins(year + 100, to)
    ELSE <<>>

\* count_events_by_year.generate_time_bins: the while loop from current_year on.
RECURSIVE FiftyYearBins(_, _)
FiftyYearBins(current_year, end_year_limit) ==
    IF current_year <= end_year_limit
    THEN LET start_year == current_year
             end_year   == IF current_year + 49 > end_year_limit
                           THEN end_year_limit
                           ELSE current_year + 49
         IN  <<[label |-> Label(start_year, end_year),
                start |-> start_year, end |-> end_year]>>
             \o FiftyYearBins(current_year + 50, end_year_limit)
    ELSE <<>>

\* count_events_by_year.generate_time_bins(), run at instant t.
generate_time_bins_by_year(t) ==
    CenturyBins(1600, 1800) \o FiftyYearBins(1800, YearOf(t[1]))

\* example_3_optimized.get_collection_temporal_extent, run at instant t:
\* both ends are formatted to the second.
get_collection_temporal_extent(t) == <<StartOfYear(START_YEAR_USGS), t>>

\* example_3_optimized.generate_time_chunks: the while loop from current_start on.
RECURSIVE ChunksFrom(_, _, _)
ChunksFrom(current_start, end_date, years_per_chunk) ==
    IF Before(current_start, end_date)
    THEN LET current_end ==
                 MinInstant(PlusDays(current_start, 365 * years_per_chunk), end_date)
         IN  <<[start |-> current_start,
                end   |-> current_end,
                label |-> Label(YearOf(current_start[1]), YearOf(current_end[1]))]>>
             \o ChunksFrom(current_end, end_date, years_per_chunk)
    ELSE <<>>

generate_time_chunks(start_date, end_date, years_per_chunk) ==
    ChunksFrom(start_date, end_date, years_per_chunk)

Partitioners == {"example_5", "count_events_by_year", "example_3_optimized"}

\* count_events_per_collection partitions nothing: its one query per
\* collection carries no datetime range.
WholeTimeLine == [label |-> <<>>]

\* The bins script p generates when run at instant t.
BinsOf(p, t) ==
    CASE p = "example_5"            -> generate_time_bins(START_YEAR, INTERVAL_YEARS, t)
      [] p = "count_events_by_year" -> generate_time_bins_by_year(t)
      [] p = "example_3_optimized"  ->
             LET ext == get_collection_temporal_extent(t)
             IN  generate_time_chunks(ext[1], ext[2], YEARS_PER_CHUNK)
      [] p = "count_events_per_collection" -> <<WholeTimeLine>>

\* The closed interval [lo, hi] a bin's datetime query asks for
\* (datetime_range = f"{start}/{end}").
DatetimeRange(p, bin) ==
    CASE p = "example_5"            ->
             [lo |-> bin.start_datetime, hi |-> bin.end_datetime]
      [] p = "count_events_by_year" ->
             [lo |-> StartOfYear(bin.start), hi |-> EndOfYear(bin.end)]
      [] p = "example_3_optimized"  ->
             [lo |-> bin.start, hi |-> bin.end]

\* The start each script is configured with.
ConfiguredStart(p) ==
    CASE p = "example_5"            -> StartOfYear(START_YEAR)
      [] p = "count_events_by_year" -> StartOfYear(1600)
      [] p = "example_3_optimized"  -> StartOfYear(START_YEAR_USGS)

(***************************************************************************)
(* SpecTime: a script's Time Partitioner is run, and re-run, while the     *)
(* wall clock advances.                                                    *)
(***************************************************************************)
ClockYearMin  == 2023
ClockYearSpan == 1
MaxRuns       == 2

ClockYears == ClockYearMin..(ClockYearMin + ClockYearSpan)

\* The days of year y the clock is sampled on: its first two days, its last
\* day, and any day on which a chunk boundary of example_3 falls.
ClockDays(y) ==
    {Jan1(y), Jan1(y) + 1, Dec31(y)}
    \cup {d \in Jan1(y)..Dec31(y) :
            (d - Jan1(START_YEAR_USGS)) % (365 * YEARS_PER_CHUNK) = 0}

ClockSeconds == {0, 1, SecondsPerDay - 1}

Clock == {<<d, s>> : d \in UNION {ClockDays(y) : y \in ClockYears}, s \in ClockSeconds}

FetchIdle ==
    fetcher = None /\ chain = <<>> /\ task = None /\ requests = <<>>

RunIdle ==
    /\ script = None /\ server = None /\ pc = "idle"
    /\ collections = <<>> /\ time_bins = <<>> /\ pending = {} /\ finished = <<>>
    /\ collected = <<>> /\ all_results = <<>> /\ combined = <<>> /\ errors = <<>>
    /\ errorLog = <<>> /\ workbook = None

TimeIdle == now = <<0, 0>> /\ partitioner = None /\ runs = <<>>

InitTime ==
    /\ now \in Clock
    /\ partitioner \in Partitioners
    /\ runs = <<>>
    /\ FetchIdle
    /\ RunIdle

\* One run of the partitioner: datetime.now() is read once, at the start.
RunPartitioner(p) ==
    /\ partitioner = p
    /\ Len(runs) < MaxRuns
    /\ runs' = Append(runs, [at |-> now, bins |-> BinsOf(p, now)])
    /\ UNCHANGED <<now, partitioner, fetchVars, runVars>>

GenerateTimeBins       == RunPartitioner("example_5")
GenerateTimeBinsByYear == RunPartitioner("count_events_by_year")
GenerateTimeChunks     == RunPartitioner("example_3_optimized")

\* Time passes between runs.
Tick ==
    /\ \E t \in Clock : Before(now, t) /\ now' = t
    /\ UNCHANGED <<partitioner, runs, fetchVars, runVars>>

NextTime ==
    \/ GenerateTimeBins
    \/ GenerateTimeBinsByYear
    \/ GenerateTimeChunks
    \/ Tick

SpecTime == InitTime /\ [][NextTime]_vars

\* The datetime intervals a run's bins query, in order.
RangesOf(r) == [i \in 1..Len(r.bins) |-> DatetimeRange(partitioner, r.bins[i])]

\* C1: every generated bin sequence is contiguous (each bin begins
\* immediately after the previous one ends), non-overlapping (no instant is
\* in two bins' query intervals) and covers exactly [configured start,
\* current date].
C1_BinsPartitionStartToNow ==
    \A k \in 1..Len(runs) :
        LET r  == runs[k]
            iv == RangesOf(r)
            n  == Len(r.bins)
        IN  /\ n > 0
            /\ iv[1].lo = ConfiguredStart(partitioner)
            /\ \A i \in 1..(n - 1) : iv[i + 1].lo = NextSecond(iv[i].hi)
            /\ \A i, j \in 1..n : i < j => Before(iv[i].hi, iv[j].lo)
            /\ iv[n].hi[1] = r.at[1]

\* C2: the end boundary of the last bin, as sent in the datetime query, is
\* never later than the current date.
C2_LastBinClippedToNow ==
    \A k \in 1..Len(runs) :
        LET r == runs[k]
        IN  Len(r.bins) > 0
            => AtOrBefore(RangesOf(r)[Len(r.bins)].hi, r.at)

\* C3: two runs with the same configuration at two instants of the same
\* calendar day yield identical bin sequences (boundaries and labels).
C3_SameDayRunsIdentical ==
    \A j, k \in 1..Len(runs) :
        runs[j].at[1] = runs[k].at[1] => runs[j].bins = runs[k].bins

(***************************************************************************)
(* Paginated Fetchers.                                                     *)
(*                                                                         *)
(* A page is [features, links]; a feature is the list of codes under the   *)
(* property the query projects (monty:country_codes, monty:hazard_codes);  *)
(* a link is [rel, href], href being the number of the page it leads to.   *)
(* url = 0 stands for None.                                                *)
(***************************************************************************)
\* next((link.get("href") for link in data.get("links", [])
\*       if link.get("rel") == "next"), None)
RECURSIVE NextHref(_)
NextHref(links) ==
    IF links = <<>> THEN 0
    ELSE IF Head(links).rel = "next" THEN Head(links).href
    ELSE NextHref(Tail(links))

\* collections.Counter: a function from the codes seen to their counts.
EmptyCounter == <<>>

\* Counter.update(codes), codes a list
RECURSIVE CounterUpdate(_, _)
CounterUpdate(c, codes) ==
    IF codes = <<>> THEN c
    ELSE LET k == Head(codes)
         IN  CounterUpdate(IF k \in DOMAIN c THEN [c EXCEPT ![k] = @ + 1]
                                             ELSE c @@ (k :> 1),
                           Tail(codes))

\* for feature in features: counter.update(codes of feature)
RECURSIVE CountFeatures(_, _)
CountFeatures(c, features) ==
    IF features = <<>> THEN c
    ELSE CountFeatures(CounterUpdate(c, Head(features)), Tail(features))

\* Counter.update(other), other a Counter
CounterAdd(c, other) ==
    [k \in DOMAIN c \cup DOMAIN other |->
        (IF k \in DOMAIN c THEN c[k] ELSE 0)
        + (IF k \in DOMAIN other THEN other[k] ELSE 0)]

max_retries == 3

NoError == <<>>

\* The local variables of a fetch task as it starts (url names page 1).
\*   items   : item_count / total_items / items_fetched
\*   counter : chunk_counter / hazard_counter
\*   written : the entries the task appended to ERROR_FILE
\*   sent    : the urls the task has passed to session.get (history)
StartTask(collection_id, label) ==
    [status |-> "running", collection |-> collection_id, label |-> label,
     url |-> 1, page_count |-> 0, attempt |-> 0, items |-> 0,
     counter |-> EmptyCounter, written |-> <<>>, sent |-> <<>>,
     result |-> [tag |-> "none"]]

\* session.get(url, ...)
Send(t) == [t EXCEPT !.sent = Append(@, t.url)]

\* fetch_time_chunk, with the retry budget given: one session.get of the
\* retry loop and what follows it, up to the next session.get or the return.
FetchTimeChunkWithBudget(t, resp, budget) ==
    LET page_count == IF t.attempt = 0 THEN t.page_count + 1 ELSE t.page_count
    IN  IF resp.ok
        THEN LET features == resp.data.features
                 nxt      == NextHref(resp.data.links)
                 t1 == [t EXCEPT !.page_count = page_count,
                                 !.items      = @ + Len(features),
                                 !.counter    = CountFeatures(@, features),
                                 !.url        = nxt,
                                 !.attempt    = 0]
             IN  IF nxt = 0
                 THEN [t1 EXCEPT !.status = "returned",
                                 !.result = [tag     |-> "chunk",
                                             counter |-> t1.counter,
                                             error   |-> NoError]]
                 ELSE t1
        ELSE IF t.attempt = budget - 1
        THEN LET error_entry == [collection |-> t.collection,
                                 time_chunk |-> t.label,
                                 page       |-> page_count,
                                 reason     |-> "Failed after max_retries attempts"]
             IN  [t EXCEPT !.page_count = page_count,
                           !.status  = "returned",
                           !.written = Append(@, error_entry),
                           !.result  = [tag     |-> "chunk",
                                        counter |-> t.counter,
                                        error   |-> <<error_entry>>]]
        ELSE [t EXCEPT !.page_count = page_count, !.attempt = @ + 1]

\* A retry loop that gives up one attempt early.
fetch_time_chunk_short_budget(t, resp) ==
    FetchTimeChunkWithBudget(t, resp, max_retries - 1)

\* A task that drops its tally when it gives up.
fetch_time_chunk_drop_partial(t, resp) ==
    LET t1 == FetchTimeChunkWithBudget(t, resp, max_retries)
    IN  IF t1.status = "returned" /\ t1.result.error # NoError
        THEN [t1 EXCEPT !.result.counter = EmptyCounter]
        ELSE t1

fetch_time_chunk(t, resp) == FetchTimeChunkWithBudget(t, resp, max_retries)

\* fetch_counts_for_bin: one pass of the while loop.
fetch_counts_for_bin(t, resp) ==
    IF resp.ok
    THEN LET features == resp.data.features
             nxt      == NextHref(resp.data.links)
             t1 == [t EXCEPT !.items   = @ + Len(features),
                             !.counter = CountFeatures(@, features),
                             !.url     = nxt]
         IN  IF features = <<>> /\ t.items = 0
             THEN [t EXCEPT !.status = "returned",
                            !.result = [tag |-> "bin", collection |-> t.collection,
                                        bin_label |-> t.label,
                                        counts |-> EmptyCounter]]
             ELSE IF nxt = 0
             THEN [t1 EXCEPT !.status = "returned",
                             !.result = [tag |-> "bin", collection |-> t.collection,
                                         bin_label |-> t.label,
                                         counts |-> t1.counter]]
             ELSE t1
    ELSE [t EXCEPT !.status = "returned",
                   !.result = [tag |-> "bin", collection |-> t.collection,
                               bin_label |-> t.label, counts |-> EmptyCounter]]

\* count_items_manually: one pass of the while loop.
count_items_manually(t, resp) ==
    IF resp.ok
    THEN LET features == resp.data.features
             nxt      == NextHref(resp.data.links)
             t1 == [t EXCEPT !.items = @ + Len(features), !.url = nxt]
         IN  IF nxt = 0
             THEN [t1 EXCEPT !.status = "returned",
                             !.result = [tag |-> "count", item_count |-> t1.items]]
             ELSE t1
    ELSE [t EXCEPT !.status = "returned",
                   !.result = [tag |-> "Error during manual count"]]

\* An event_count cell: an integer, or the string "Error".
IntValue(n) == [tag |-> "int", n |-> n]
ErrorValue  == [tag |-> "Error"]

\* A count mode that reports a body without numberMatched as an error.
fetch_count_for_bin_strict(collection_id, time_bin, resp) ==
    [collection  |-> collection_id,
     time_period |-> time_bin.label,
     event_count |-> IF resp.ok /\ resp.data.numberMatched # <<>>
                     THEN IntValue(resp.data.numberMatched[1])
                     ELSE ErrorValue]

\* count_events_by_year.fetch_count_for_bin: resp.data.numberMatched is
\* <<n>> when the body carries the field and <<>> when it does not.
fetch_count_for_bin(collection_id, time_bin, resp) ==
    IF resp.ok
    THEN LET count == IF resp.data.numberMatched = <<>>
                      THEN 0
                      ELSE resp.data.numberMatched[1]
         IN  [collection  |-> collection_id,
              time_period |-> time_bin.label,
              event_count |-> IntValue(count)]
    ELSE [collection  |-> collection_id,
          time_period |-> time_bin.label,
          event_count |-> ErrorValue]

\* count_events_per_collection: the urls other than the pages of the items
\* listing: collection_url (the collection's metadata) and items_url (the
\* items endpoint with limit=1).
collection_url == 0 - 2
items_url      == 0 - 1

\* A total_events cell: an integer, "Error", "Error during manual count" or
\* "Exception".
ManualCountError == [tag |-> "Error during manual count"]
ExceptionValue   == [tag |-> "Exception"]

CountRow(collection_id, total_events) ==
    [tag |-> "row",
     row |-> [collection_id |-> collection_id, total_events |-> total_events]]

\* fetch_collection_count, with the summary looked at or not: one
\* session.get and what follows it, up to the next session.get or the return.
FetchCollectionCount(t, resp, use_summary) ==
    IF t.url = collection_url
    THEN IF ~resp.ok
         THEN [t EXCEPT !.status = "returned",
                        !.result = CountRow(t.collection, ErrorValue)]
         ELSE IF use_summary /\ resp.data.monty_count # <<>>
         THEN [t EXCEPT !.status = "returned",
                        !.result = CountRow(t.collection,
                                            IntValue(resp.data.monty_count[1]))]
         ELSE [t EXCEPT !.url = items_url]
    ELSE IF t.url = items_url
    THEN IF ~resp.ok
         THEN [t EXCEPT !.status = "returned",
                        !.result = CountRow(t.collection, ErrorValue)]
         ELSE IF resp.data.numberMatched # <<>>
         THEN [t EXCEPT !.status = "returned",
                        !.result = CountRow(t.collection,
                                            IntValue(resp.data.numberMatched[1]))]
         ELSE [t EXCEPT !.url = 1]
    ELSE LET m == count_items_manually(t, resp)
         IN  IF m.status = "returned"
             THEN [m EXCEPT !.result =
                      CountRow(t.collection,
                               IF m.result.tag = "count"
                               THEN IntValue(m.result.item_count)
                               ELSE ManualCountError)]
             ELSE m

\* A fetch_collection_count that goes to the items endpoint whatever the
\* summary holds.
fetch_collection_count_skip_summary(t, resp) == FetchCollectionCount(t, resp, FALSE)

fetch_collection_count(t, resp) == FetchCollectionCount(t, resp, TRUE)

Fetchers == {"fetch_time_chunk", "fetch_counts_for_bin", "count_items_manually",
             "fetch_count_for_bin"}

FetchStep(f, t, resp) ==
    CASE f = "fetch_time_chunk"     -> fetch_time_chunk(t, resp)
      [] f = "fetch_counts_for_bin" -> fetch_counts_for_bin(t, resp)
      [] f = "count_items_manually" -> count_items_manually(t, resp)
      [] f = "fetch_collection_count" -> fetch_collection_count(t, resp)
      [] f = "fetch_count_for_bin"  ->
             [t EXCEPT !.status = "returned",
                       !.result = [tag |-> "row",
                                   row |-> fetch_count_for_bin(
                                               t.collection, [label |-> t.label], resp)]]

\* A task run to its return against the page chain `pages`; plan[i] tells
\* whether the i-th request succeeds, requests beyond the plan succeed.
RECURSIVE RunTask(_, _, _, _)
RunTask(f, t, pages, plan) ==
    IF t.status = "returned" THEN t
    ELSE RunTask(f,
                 FetchStep(f, Send(t), [ok   |-> plan = <<>> \/ Head(plan),
                                        data |-> pages[t.url]]),
                 pages,
                 IF plan = <<>> THEN plan ELSE Tail(plan))

(***************************************************************************)
(* SpecFetch: one fetch task against one page chain, request by request;   *)
(* every request either gets its page or fails with a RequestException.    *)
(***************************************************************************)
MaxPages    == 3
MaxFailures == 4

COLLECTION_ID == "usgs-events"

\* The item lists a page may hold: no item, one item with one code, two
\* items of which one carries two codes.
PageFeatures == {<<>>, << <<"AA">> >>, << <<"AA">>, <<"AA", "BB">> >>}

\* The chain serving the given item lists: every page but the last links to
\* its successor with rel "next"; the bodies carry no numberMatched.
MakeChain(fs) ==
    [i \in 1..Len(fs) |->
        [features |-> fs[i],
         links    |-> <<[rel |-> "self", href |-> i]>>
                      \o (IF i < Len(fs) THEN <<[rel |-> "next", href |-> i + 1]>>
                                         ELSE <<>>),
         numberMatched |-> <<>>]]

\* The number of items on pages 1..hi of a chain.
RECURSIVE ItemsOnPages(_, _)
ItemsOnPages(pages, hi) ==
    IF hi = 0 THEN 0 ELSE ItemsOnPages(pages, hi - 1) + Len(pages[hi].features)

\* The same chain served by an API that reports the total in numberMatched.
WithMatched(pages) ==
    [i \in DOMAIN pages |->
        [pages[i] EXCEPT !.numberMatched = <<ItemsOnPages(pages, Len(pages))>>]]

PlainChains ==
    {MakeChain(fs) : fs \in UNION {[1..n -> PageFeatures] : n \in 1..MaxPages}}

Chains == PlainChains \cup {WithMatched(c) : c \in PlainChains}

InitFetch ==
    /\ fetcher \in Fetchers
    /\ chain \in Chains
    /\ task = StartTask(COLLECTION_ID,
                        Head(BinsOf("example_3_optimized",
                                    StartOfYear(ClockYearMin))).label)
    /\ requests = <<>>
    /\ TimeIdle
    /\ RunIdle

FailureCount(reqs) == Cardinality({i \in DOMAIN reqs : ~reqs[i].ok})

\* The server answers the task's request with the page asked for.
Respond(f) ==
    /\ fetcher = f
    /\ task.status = "running"
    /\ task' = FetchStep(f, Send(task), [ok |-> TRUE, data |-> chain[task.url]])
    /\ requests' = Append(requests, [page |-> task.url, ok |-> TRUE])
    /\ UNCHANGED <<fetcher, chain, timeVars, runVars>>

\* The request fails (timeout, connection error, HTTP error status).
Fail(f) ==
    /\ fetcher = f
    /\ task.status = "running"
    /\ FailureCount(requests) < MaxFailures
    /\ task' = FetchStep(f, Send(task), [ok |-> FALSE, data |-> chain[task.url]])
    /\ requests' = Append(requests, [page |-> task.url, ok |-> FALSE])
    /\ UNCHANGED <<fetcher, chain, timeVars, runVars>>

FetchTimeChunkPage      == Respond("fetch_time_chunk")
FetchTimeChunkFailure   == Fail("fetch_time_chunk")
FetchCountsForBinPage   == Respond("fetch_counts_for_bin")
FetchCountsForBinFailure == Fail("fetch_counts_for_bin")
CountItemsManuallyPage  == Respond("count_items_manually")
CountItemsManuallyFailure == Fail("count_items_manually")
FetchCountForBinResponse  == Respond("fetch_count_for_bin")
FetchCountForBinFailure   == Fail("fetch_count_for_bin")

NextFetch ==
    \/ FetchTimeChunkPage
    \/ FetchTimeChunkFailure
    \/ FetchCountsForBinPage
    \/ FetchCountsForBinFailure
    \/ CountItemsManuallyPage
    \/ CountItemsManuallyFailure
    \/ FetchCountForBinResponse
    \/ FetchCountForBinFailure

SpecFetch == InitFetch /\ [][NextFetch]_vars

\* Every request carries a timeout, so a running task always takes its
\* next step.
FairSpecFetch == SpecFetch /\ WF_vars(NextFetch)

\* The tally of all codes on pages lo..hi of a chain.
RECURSIVE TallyPages(_, _, _)
TallyPages(pages, lo, hi) ==
    IF lo > hi THEN EmptyCounter
    ELSE CounterAdd(TallyPages(pages, lo, hi - 1),
                    CountFeatures(EmptyCounter, pages[hi].features))

\* The last n requests all failed, on one page.
LastFailed(reqs, n) ==
    /\ Len(reqs) >= n
    /\ \A i \in (Len(reqs) - n + 1)..Len(reqs) :
          ~reqs[i].ok /\ reqs[i].page = reqs[Len(reqs)].page

\* C4: a fetch_time_chunk task whose requests fail fewer than max_retries
\* times eventually returns, with no error, nothing written to the error
\* file, and the tally of a run in which no request fails.
C4_RetrySuccess ==
    fetcher = "fetch_time_chunk"
    => <>(/\ fetcher = "fetch_time_chunk"
          /\ task.status = "returned"
          /\ FailureCount(requests) < max_retries
              => /\ task.result.error = NoError
                 /\ task.written = <<>>
                 /\ task.result.counter = TallyPages(chain, 1, Len(chain)))

C4_Witness ==
    /\ fetcher = "fetch_time_chunk"
    /\ task.status = "returned"
    /\ FailureCount(requests) = max_retries - 1
    /\ Len(chain) > 1
    /\ task.result.error = NoError
    /\ task.result.counter # EmptyCounter

\* C5 as stated: a fetch_time_chunk task whose requests fail at least
\* max_retries times, however the failures are spread over its pages, writes
\* exactly one Error Record and returns an empty tally.
C5_ExhaustionEmptyTally ==
    (/\ fetcher = "fetch_time_chunk"
     /\ task.status = "returned"
     /\ FailureCount(requests) >= max_retries)
    => /\ Len(task.written) = 1
       /\ task.result.counter = EmptyCounter

\* C5 amended: a fetch_time_chunk task gives up exactly when max_retries
\* requests in a row fail on one page; it then writes exactly one Error
\* Record, naming that page, and returns it with the tally of the pages
\* before it; otherwise it writes none and returns the full tally.
C5_ExhaustionPartialTally ==
    (fetcher = "fetch_time_chunk" /\ task.status = "returned")
    => IF LastFailed(requests, max_retries)
       THEN /\ Len(task.written) = 1
            /\ task.result.error = task.written
            /\ task.written[1].page = requests[Len(requests)].page
            /\ task.result.counter
                   = TallyPages(chain, 1, requests[Len(requests)].page - 1)
       ELSE /\ task.written = <<>>
            /\ task.result.error = NoError
            /\ task.result.counter = TallyPages(chain, 1, Len(chain))

C5_Witness ==
    /\ fetcher = "fetch_time_chunk"
    /\ task.status = "returned"
    /\ LastFailed(requests, max_retries)
    /\ requests[Len(requests)].page = 2
    /\ task.result.counter # EmptyCounter

\* C6 as stated: on a finite chain whose last page has no "next" link, with
\* no request failing, each paginating fetcher returns after requesting
\* every page of the chain in sequence, having counted the sum of the pages'
\* item counts.
C6_PaginationCountsEveryPage ==
    (/\ fetcher # "fetch_count_for_bin"
     /\ task.status = "returned"
     /\ FailureCount(requests) = 0)
    => /\ requests = [i \in 1..Len(chain) |-> [page |-> i, ok |-> TRUE]]
       /\ task.items = ItemsOnPages(chain, Len(chain))

\* C12: a fetch_count_for_bin task sends exactly one request, for the first
\* page, whatever "next" link the answer carries; answered, its count is
\* numberMatched when the body carries it and 0, not "Error", when it does
\* not.
C12_CountModeSingleRequest ==
    (fetcher = "fetch_count_for_bin" /\ task.status = "returned")
    => /\ requests \in {<<[page |-> 1, ok |-> TRUE]>>, <<[page |-> 1, ok |-> FALSE]>>}
       /\ task.result.row.collection = task.collection
       /\ task.result.row.time_period = task.label
       /\ requests[1].ok
           => task.result.row.event_count
                  = IF chain[1].numberMatched = <<>>
                    THEN IntValue(0)
                    ELSE IntValue(ItemsOnPages(chain, Len(chain)))

\* An answered count-mode task whose body omits numberMatched and links to
\* a next page holding items.
C12_Witness ==
    /\ fetcher = "fetch_count_for_bin"
    /\ task.status = "returned"
    /\ requests = <<[page |-> 1, ok |-> TRUE]>>
    /\ Len(chain) > 1
    /\ chain[1].numberMatched = <<>>
    /\ ItemsOnPages(chain, Len(chain)) > 0
    /\ task.result.row.event_count = IntValue(0)

(***************************************************************************)
(* Count mode, collection listing, and the tables pandas builds.           *)
(***************************************************************************)
\* The ids containing "-events" among the ids the API serves.
EventsInName(id) == id \in {"gdacs-events", "usgs-events"}

\* [x for x in xs if keep[x]], by position
RECURSIVE Filter(_, _)
Filter(xs, keep) ==
    IF xs = <<>> THEN <<>>
    ELSE (IF keep[1] THEN <<Head(xs)>> ELSE <<>>)
         \o Filter(Tail(xs), Tail(keep))

Range(xs) == {xs[i] : i \in DOMAIN xs}

\* count_events_by_year.get_event_collections: one request; the ids of the
\* collections of its body with "event" among their roles; [] when it fails.
get_event_collections(listing) ==
    IF listing[1].ok
    THEN LET cs == listing[1].collections
             ev == Filter(cs, [i \in DOMAIN cs |-> "event" \in Range(cs[i].roles)])
         IN  [i \in DOMAIN ev |-> ev[i].id]
    ELSE <<>>

\* count_events_per_collection.get_all_collections: one request; every id
\* of its body; [] when it fails.
get_all_collections(listing) ==
    IF listing[1].ok
    THEN [i \in DOMAIN listing[1].collections |-> listing[1].collections[i].id]
    ELSE <<>>

\* example_5.get_hazard_collections: the while loop from page `url` on;
\* ok tells whether every request was answered.
RECURSIVE ListingPagesFrom(_, _, _)
ListingPagesFrom(listing, url, all_collections) ==
    IF url = 0 THEN [ok |-> TRUE, all_collections |-> all_collections]
    ELSE IF ~listing[url].ok
    THEN [ok |-> FALSE, all_collections |-> all_collections]
    ELSE ListingPagesFrom(listing, NextHref(listing[url].links),
                          all_collections \o listing[url].collections)

\* for collection in all_collections: if "-events" in coll_id: append
HazardIds(all_collections) ==
    LET hz == Filter(all_collections,
                     [i \in DOMAIN all_collections |->
                         EventsInName(all_collections[i].id)])
    IN  [i \in DOMAIN hz |-> hz[i].id]

\* A lister that keeps the pages it got before the failing one.
get_hazard_collections_keep_pages(listing) ==
    HazardIds(ListingPagesFrom(listing, 1, <<>>).all_collections)

\* example_5.get_hazard_collections: the ids with "-events" in their name
\* over all pages of the listing; [] when a request fails.
get_hazard_collections(listing) ==
    LET got == ListingPagesFrom(listing, 1, <<>>)
    IN  IF got.ok THEN HazardIds(got.all_collections) ELSE <<>>

\* Series.unique(): the distinct values in order of first appearance.
RECURSIVE UniqueFrom(_, _)
UniqueFrom(seen, xs) ==
    IF xs = <<>> THEN seen
    ELSE UniqueFrom(IF Head(xs) \in Range(seen) THEN seen ELSE Append(seen, Head(xs)),
                    Tail(xs))

Unique(xs) == UniqueFrom(<<>>, xs)

RemoveAt(xs, m) == [i \in 1..(Len(xs) - 1) |-> IF i < m THEN xs[i] ELSE xs[i + 1]]

\* The labels left in the order they were found.
unsorted(xs) == xs

\* sorted(xs) for a list of str
RECURSIVE sorted(_)
sorted(xs) ==
    IF xs = <<>> THEN <<>>
    ELSE LET m == CHOOSE i \in 1..Len(xs) :
                      \A j \in 1..Len(xs) : ~StrLess(xs[j], xs[i])
         IN  <<xs[m]>> \o sorted(RemoveAt(xs, m))

\* The rows of a frame whose collection is c: df[df['collection'] == c]
RowsOfCollection(df, c) == Filter(df, [i \in DOMAIN df |-> df[i].collection = c])

TimePeriods(df) == [i \in DOMAIN df |-> df[i].time_period]

RECURSIVE SumSeq(_)
SumSeq(xs) == IF xs = <<>> THEN 0 ELSE Head(xs) + SumSeq(Tail(xs))

\* A pivot that counts the rows of a group.
GroupSize(xs) == Len(xs)

\* The aggregate pivot_table puts in a cell: the mean of the group's values.
Mean(xs) == SumSeq(xs) \div Len(xs)

\* DataFrame.pivot_table(index, columns = 'time_period', values) of a frame
\* whose rows carry a row key, followed by reindex(columns, fill_value = 0):
\* the columns are exactly `columns`, in that order; a cell no row fills is 0.
PivotReindexed(keys, periods, values, columns) ==
    [columns |-> columns,
     index   |-> Range(keys),
     cell    |-> [k \in Range(keys), l \in Range(columns) |->
                    LET hit == Filter(values,
                                      [i \in DOMAIN values |->
                                          keys[i] = k /\ periods[i] = l])
                    IN  IF hit = <<>> THEN 0 ELSE Mean(hit)]]

\* count_events_by_year.main, lines 139-164: the sheets written.
ExportByYear(rows) ==
    LET df_long == Filter(rows, [i \in DOMAIN rows |-> rows[i].event_count # ErrorValue])
        colls   == Unique([i \in DOMAIN df_long |-> df_long[i].collection])
        all_time_periods == sorted(Unique(TimePeriods(df_long)))
    IN  [c \in Range(colls) |->
            LET df_collection == RowsOfCollection(df_long, c)
            IN  PivotReindexed([i \in DOMAIN df_collection |-> df_collection[i].collection],
                               TimePeriods(df_collection),
                               [i \in DOMAIN df_collection |-> df_collection[i].event_count.n],
                               all_time_periods)]

\* example_5.main, lines 181-211: the sheets written.
ExportHazards(rows) ==
    LET df_long == rows
        time_period_order == sorted(Unique(TimePeriods(df_long)))
        colls   == Unique([i \in DOMAIN df_long |-> df_long[i].collection])
    IN  [c \in Range(colls) |->
            LET df_collection == RowsOfCollection(df_long, c)
            IN  PivotReindexed([i \in DOMAIN df_collection |-> df_collection[i].hazard_code],
                               TimePeriods(df_collection),
                               [i \in DOMAIN df_collection |-> df_collection[i].event_count],
                               time_period_order)]

\* example_5.main, lines 165-172: the rows one task's counts add.
RECURSIVE RowsOfCounts(_, _, _)
RowsOfCounts(collection_id, bin_label, counts) ==
    IF DOMAIN counts = {} THEN <<>>
    ELSE LET hazard_code == CHOOSE k \in DOMAIN counts : TRUE
         IN  <<[collection  |-> collection_id,
                time_period |-> bin_label,
                hazard_code |-> hazard_code,
                event_count |-> counts[hazard_code]]>>
             \o RowsOfCounts(collection_id, bin_label,
                             [k \in DOMAIN counts \ {hazard_code} |-> counts[k]])

\* x["collection_id"] < y["collection_id"] for the ids the API serves.
IdRank(id) ==
    CASE id = "gdacs-events"  -> 1
      [] id = "gdacs-hazards" -> 2
      [] id = "usgs-events"   -> 3

\* results.sort(key=lambda x: x["collection_id"]): stable, by insertion.
RECURSIVE SortById(_)
SortById(results) ==
    IF results = <<>> THEN <<>>
    ELSE LET m == CHOOSE i \in DOMAIN results :
                      /\ \A j \in DOMAIN results :
                            IdRank(results[i].collection_id)
                                <= IdRank(results[j].collection_id)
                      /\ \A j \in 1..(i - 1) :
                            IdRank(results[j].collection_id)
                                # IdRank(results[i].collection_id)
         IN  <<results[m]>> \o SortById(RemoveAt(results, m))

(***************************************************************************)
(* Spec: one run of a script's main(): list the collections, partition     *)
(* the time line, submit one task per (collection, bin) to the pool,       *)
(* collect the futures in the order they complete, export.                 *)
(***************************************************************************)
RunYearSpan == 0

Scripts == {"count_events_by_year", "example_5", "example_3_optimized",
            "count_events_per_collection"}

\* The years a run's clock is set in: the run then has two or three bins.
RunYears(s) ==
    LET first == CASE s = "count_events_by_year" -> 1800 + 47
                   [] s = "example_5"            -> START_YEAR + 2 * INTERVAL_YEARS - 2
                   [] s = "example_3_optimized"  -> START_YEAR_USGS + YEARS_PER_CHUNK
                   [] s = "count_events_per_collection" -> ClockYearMin
    IN  first..(first + RunYearSpan)

\* What GET /collections may answer.
Gdacs   == [id |-> "gdacs-events",  roles |-> <<"event", "source">>]
Usgs    == [id |-> "usgs-events",   roles |-> <<"event">>]
Hazards == [id |-> "gdacs-hazards", roles |-> <<"hazard">>]

CollectionIds == {Gdacs.id, Usgs.id, Hazards.id}

\* The listing served in the given pages: every page but the last links
\* to its successor with rel "next".
MakeListing(pages) ==
    [i \in 1..Len(pages) |->
        [ok          |-> pages[i].ok,
         collections |-> pages[i].collections,
         links       |-> IF i < Len(pages) THEN <<[rel |-> "next", href |-> i + 1]>>
                                           ELSE <<>>]]

Answered(cs) == [ok |-> TRUE, collections |-> cs]
Refused      == [ok |-> FALSE, collections |-> <<>>]

Listings ==
    {MakeListing(<<Refused>>),
     MakeListing(<<Answered(<<Hazards>>)>>),
     MakeListing(<<Answered(<<Gdacs, Hazards>>)>>),
     MakeListing(<<Answered(<<Usgs, Gdacs>>)>>),
     MakeListing(<<Answered(<<Gdacs>>), Refused>>),
     MakeListing(<<Answered(<<Gdacs>>), Answered(<<Usgs>>)>>)}

\* How the API behaves for the items of one collection:
\*   zero      no item in any period
\*   data      items in the hot period only
\*   failhot   as data, but every request for the hot period fails
\*   raisehot  as data, but the body answered for the hot period is not the
\*             JSON object the task expects, so that the worker raises
\*   allfail   every request fails
\*   allraise  every body is broken
\*   flaky     as data, but the first two requests for the hot period fail
\*   partial   as data, but after page 1 of the hot period every request fails
Kinds == {"zero", "data", "failhot", "raisehot", "allfail", "allraise"}
ChunkKinds == Kinds \cup {"flaky", "partial"}

\* How the API behaves for the count of one collection:
\*   summary     the metadata carries summaries.monty:count
\*   matched     it does not; the items endpoint reports numberMatched
\*   manual      neither is there: the items are to be paged through
\*   metafail    the metadata request fails
\*   itemsfail   as matched, but the items request fails
\*   manualfail  as manual, but the request for page 2 fails
\*   broken      the metadata body is not the JSON object expected
CountKinds == {"summary", "matched", "manual", "metafail", "itemsfail",
               "manualfail", "broken"}

DataPages  == MakeChain(<< << <<"AA">> >>, << <<"AA">>, <<"AA", "BB">> >> >>)
EmptyPages == MakeChain(<< <<>> >>)

AlwaysFail == [i \in 1..(2 * max_retries) |-> FALSE]

\* What the API holds for the count of a collection: metadata, the items
\* endpoint queried with limit=1, and the pages of its items.  The three
\* sources disagree, so that the one a count came from shows.
CountApi(kind) ==
    (collection_url :> [monty_count |-> IF kind = "summary" THEN <<7>> ELSE <<>>])
    @@ (items_url :> [numberMatched |-> IF kind \in {"summary", "matched", "itemsfail"}
                                        THEN <<5>> ELSE <<>>])
    @@ DataPages

\* The mock API of the end-to-end scenario: collection A has 10 items in
\* bin 2, collection B 5 items in bin 3 and nothing else, and the first
\* two requests for B's bin 1 get an HTTP error.
MockA == Gdacs.id
MockB == Usgs.id

ItemsPage(n) == MakeChain(<<[i \in 1..n |-> <<"AA">>]>>)

MockBehaviour(t) ==
    [pages  |-> CASE t = <<MockA, 2>> -> ItemsPage(10)
                  [] t = <<MockB, 3>> -> ItemsPage(5)
                  [] OTHER            -> EmptyPages,
     plan   |-> IF t = <<MockB, 1>> THEN <<FALSE, FALSE>> ELSE <<>>,
     broken |-> FALSE]

\* The years the scenario runs in: the run then has three bins.
MockYears(s) ==
    CASE s = "count_events_by_year" -> {1800 + 47}
      [] s = "example_5"            -> {START_YEAR + 2 * INTERVAL_YEARS}
      [] OTHER                      -> {}

\* What the API does for the task (collection of the given kind, period
\* hot or not): the page chain it holds, which requests fail, and whether
\* the bodies are broken.
Behaviour(kind, hot) ==
    [pages  |-> IF kind \in CountKinds THEN CountApi(kind)
                ELSE IF hot /\ kind \in {"data", "failhot", "raisehot", "flaky", "partial"}
                THEN DataPages ELSE EmptyPages,
     plan   |-> CASE kind = "allfail"            -> AlwaysFail
                  [] kind = "failhot" /\ hot     -> AlwaysFail
                  [] kind = "flaky" /\ hot       -> <<FALSE, FALSE>>
                  [] kind = "partial" /\ hot     -> <<TRUE>> \o AlwaysFail
                  [] kind = "metafail"           -> <<FALSE>>
                  [] kind = "itemsfail"          -> <<TRUE, FALSE>>
                  [] kind = "manualfail"         -> <<TRUE, TRUE, TRUE, FALSE>>
                  [] OTHER                       -> <<>>,
     broken |-> kind \in {"allraise", "broken"} \/ (kind = "raisehot" /\ hot)]

\* The task (c, b) is for collection c and bin number b of time_bins.
BehaviourOf(srv, t) ==
    IF srv.mock THEN MockBehaviour(t)
    ELSE Behaviour(srv.kind[t[1]], srv.hot = t[2])

\* What running a task gives: the value the worker returns (or "raised"
\* when it raises), what it appended to ERROR_FILE meanwhile, and the urls
\* it requested.
RunPagedTask(f, collection_id, time_bin, beh) ==
    LET t == RunTask(f, StartTask(collection_id, time_bin.label), beh.pages, beh.plan)
    IN  [kind |-> "returned", value |-> t.result, written |-> t.written,
         requests |-> t.sent]

RunFetchCountForBin(collection_id, time_bin, beh) ==
    LET t == RunTask("fetch_count_for_bin", StartTask(collection_id, time_bin.label),
                     WithMatched(beh.pages), beh.plan)
    IN  [kind |-> "returned", value |-> t.result.row, written |-> t.written,
         requests |-> t.sent]

RunFetchCollectionCount(collection_id, beh) ==
    LET t == RunTask("fetch_collection_count",
                     [StartTask(collection_id, <<>>) EXCEPT !.url = collection_url],
                     beh.pages, beh.plan)
    IN  [kind |-> "returned", value |-> t.result.row, written |-> t.written,
         requests |-> t.sent]

\* The url of a task's first request.
FirstUrl(s) == IF s = "count_events_per_collection" THEN collection_url ELSE 1

Outcome(s, collection_id, time_bin, beh) ==
    IF beh.broken
    THEN [kind |-> "raised", value |-> [tag |-> "none"], written |-> <<>>,
          requests |-> <<FirstUrl(s)>>]
    ELSE CASE s = "count_events_by_year" ->
                  RunFetchCountForBin(collection_id, time_bin, beh)
           [] s = "example_5" ->
                  RunPagedTask("fetch_counts_for_bin", collection_id, time_bin, beh)
           [] s = "example_3_optimized" ->
                  RunPagedTask("fetch_time_chunk", collection_id, time_bin, beh)
           [] s = "count_events_per_collection" ->
                  RunFetchCollectionCount(collection_id, beh)

NoListing == MakeListing(<<Answered(<<>>)>>)
NoFile    == [file |-> "none"]

\* What the script's Collection Lister makes of a listing.
Lister(s, listing) ==
    CASE s = "count_events_by_year"        -> get_event_collections(listing)
      [] s = "example_5"                   -> get_hazard_collections(listing)
      [] s = "count_events_per_collection" -> get_all_collections(listing)
      [] s = "example_3_optimized"         -> <<COLLECTION_ID>>

\* The APIs a script is run against: a listing, and for each collection
\* the script comes to query a kind of behaviour; or the mock API of the
\* end-to-end scenario.
Servers(s) ==
    {[mock |-> FALSE, listing |-> listing, kind |-> kind, hot |-> hot] :
        listing \in (IF s = "example_3_optimized" THEN {NoListing} ELSE Listings),
        kind \in [CollectionIds -> ChunkKinds \cup CountKinds],
        hot \in 1..2}

TaskKinds(s) ==
    CASE s = "example_3_optimized"         -> ChunkKinds
      [] s = "count_events_per_collection" -> CountKinds
      [] OTHER                             -> Kinds

\* The kind of a collection the script never queries is immaterial.
Unqueried(s) == IF s = "count_events_per_collection" THEN "summary" ELSE "zero"

MockServer ==
    [mock    |-> TRUE,
     listing |-> MakeListing(<<Answered(<<Gdacs, Usgs>>)>>),
     kind    |-> [c \in CollectionIds |-> "zero"],
     hot     |-> 1]

InitRun ==
    /\ script \in Scripts
    /\ \/ /\ now \in {StartOfYear(y) : y \in RunYears(script)}
          /\ server \in Servers(script)
          /\ LET listed == Range(Lister(script, server.listing))
             IN  /\ \A c \in CollectionIds :
                       IF c \in listed THEN server.kind[c] \in TaskKinds(script)
                                       ELSE server.kind[c] = Unqueried(script)
                 \* count_events_by_year has two century bins that differ in
                 \* nothing: the hot period is the first of them.
                 /\ (listed = {} \/ script \in {"count_events_per_collection",
                                                 "count_events_by_year"})
                        => server.hot = 1
       \/ /\ now \in {StartOfYear(y) : y \in MockYears(script)}
          /\ server = MockServer
    /\ pc = "start"
    /\ collections = <<>>
    /\ time_bins = <<>>
    /\ pending = {}
    /\ finished = <<>>
    /\ collected = <<>>
    /\ all_results = <<>>
    /\ combined = EmptyCounter
    /\ errors = <<>>
    /\ errorLog = <<>>
    /\ workbook = NoFile
    /\ partitioner = None
    /\ runs = <<>>
    /\ FetchIdle

\* main(): the Collection Lister is called; an empty result ends the run.
ListCollections ==
    /\ pc = "start"
    /\ script # "example_3_optimized"
    /\ collections' = Lister(script, server.listing)
    /\ pc' = IF collections' = <<>> THEN "exit" ELSE "listed"
    /\ UNCHANGED <<script, server, time_bins, pending, finished, collected,
                   all_results, combined, errors, errorLog, workbook,
                   timeVars, fetchVars>>

\* main(): the time line is partitioned and every (collection, bin) task is
\* submitted to the ThreadPoolExecutor.
Submit ==
    /\ \/ pc = "listed"
       \/ pc = "start" /\ script = "example_3_optimized"
    /\ time_bins' = BinsOf(script, now)
    /\ collections' = IF script = "example_3_optimized"
                      THEN Lister(script, server.listing)
                      ELSE collections
    /\ pending' = Range(collections') \X (1..Len(time_bins'))
    /\ pc' = "collect"
    /\ UNCHANGED <<script, server, finished, collected, all_results, combined,
                   errors, errorLog, workbook, timeVars, fetchVars>>

\* What the worker running task t gets.
OutcomeOf(t) ==
    Outcome(script, t[1], time_bins[t[2]], BehaviourOf(server, t))

\* A pool worker runs the submitted task t to its end, on its own; the
\* future is then done.  What fetch_time_chunk writes to ERROR_FILE it
\* writes from the worker.
Run(t) ==
    /\ pc = "collect"
    /\ t \in pending
    /\ t \notin DOMAIN finished
    /\ finished' = finished @@ (t :> OutcomeOf(t).requests)
    /\ errorLog' = errorLog \o OutcomeOf(t).written
    /\ UNCHANGED <<script, server, pc, collections, time_bins, pending,
                   collected, all_results, combined, errors, workbook,
                   timeVars, fetchVars>>

RunAny == \E t \in pending : Run(t)

\* Whether the task failed: it raised, it gave up on a failed request, or
\* it completed.
OutcomeKind(s, o, beh) ==
    IF o.kind = "raised" THEN "raised"
    ELSE CASE s = "count_events_by_year" ->
                  IF o.value.event_count = ErrorValue THEN "error" ELSE "ok"
           [] s = "example_5" ->
                  IF beh.plan # <<>> /\ ~Head(beh.plan) THEN "error" ELSE "ok"
           [] s = "example_3_optimized" ->
                  IF o.value.error # NoError THEN "error" ELSE "ok"
           [] s = "count_events_per_collection" ->
                  IF o.value.total_events.tag = "int" THEN "ok" ELSE "error"

\* A collecting loop that lets a task's exception escape.
CollectUnguarded(o) == IF o.kind = "raised" THEN "crashed" ELSE "collect"

\* The try/except around future.result(): the loop goes on whatever the
\* task did.
AfterCollect(o) == "collect"

\* A pool in which a task that raises takes its siblings with it.
CancelSiblings(futures, t, o) == IF o.kind = "raised" THEN {} ELSE futures \ {t}

\* as_completed yields each future once; the others stay as they are.
StillPending(futures, t, o) == futures \ {t}

\* The body of `for future in as_completed(...)` for the future of task t,
\* which is done.
Collect(t) ==
    /\ pc = "collect"
    /\ t \in pending
    /\ t \in DOMAIN finished
    /\ LET beh == BehaviourOf(server, t)
           o   == OutcomeOf(t)
       IN  /\ collected' = Append(collected,
                                  [task |-> t, kind |-> OutcomeKind(script, o, beh)])
           /\ all_results' =
                 CASE script = "count_events_per_collection" ->
                          Append(all_results,
                                 IF o.kind = "raised"
                                 THEN [collection_id |-> t[1],
                                       total_events  |-> ExceptionValue]
                                 ELSE o.value)
                   [] script = "count_events_by_year" /\ o.kind = "returned" ->
                          Append(all_results, o.value)
                   [] script = "example_5" /\ o.kind = "returned" ->
                          all_results
                          \o RowsOfCounts(o.value.collection, o.value.bin_label,
                                          o.value.counts)
                   [] OTHER -> all_results
           /\ combined' =
                 IF script = "example_3_optimized" /\ o.kind = "returned"
                 THEN CounterAdd(combined, o.value.counter)
                 ELSE combined
           /\ errors' =
                 IF script # "example_3_optimized" THEN errors
                 ELSE IF o.kind = "raised"
                 THEN Append(errors, [collection |-> t[1],
                                      time_chunk |-> time_bins[t[2]].label,
                                      reason     |-> "exception"])
                 ELSE errors \o o.value.error
           /\ pc' = AfterCollect(o)
           /\ pending' = StillPending(pending, t, o)
    /\ UNCHANGED <<script, server, collections, time_bins, finished, errorLog,
                   workbook, timeVars, fetchVars>>

CollectAny == \E t \in pending : Collect(t)

\* Whether the collecting loop left anything to export.
HasData ==
    IF script = "example_3_optimized"
    THEN combined # EmptyCounter
    ELSE all_results # <<>>

\* main(): the output is written (count_events_per_collection prints its
\* table).
Export ==
    /\ pc = "collect"
    /\ pending = {}
    /\ HasData
    /\ workbook' =
          CASE script = "count_events_by_year" ->
                   [file |-> "xlsx", sheets |-> ExportByYear(all_results)]
            [] script = "example_5" ->
                   [file |-> "xlsx", sheets |-> ExportHazards(all_results)]
            [] script = "example_3_optimized" ->
                   [file |-> "csv", rows |-> combined]
            [] script = "count_events_per_collection" ->
                   [file |-> "stdout", rows |-> SortById(all_results)]
    /\ pc' = "exported"
    /\ UNCHANGED <<script, server, collections, time_bins, pending, finished,
                   collected, all_results, combined, errors, errorLog,
                   timeVars, fetchVars>>

\* main(): "No ... data was found" / "No data was processed": nothing is
\* written.
NoData ==
    /\ pc = "collect"
    /\ pending = {}
    /\ ~HasData
    /\ pc' = "nodata"
    /\ UNCHANGED <<script, server, collections, time_bins, pending, finished,
                   collected, all_results, combined, errors, errorLog, workbook,
                   timeVars, fetchVars>>

Next ==
    \/ ListCollections
    \/ Submit
    \/ RunAny
    \/ CollectAny
    \/ Export
    \/ NoData

Spec == InitRun /\ [][Next]_vars

\* main() has a step to take: it has not returned.
Running == pc \in {"start", "listed", "collect"}

\* The pool's workers run every submitted task to its end (each request has
\* a timeout) and main() waits for nothing else: a run that can take a step
\* eventually takes one.  This is WF_vars(Next) with ENABLED <<Next>>_vars
\* written out as Running.
FairSpec == Spec /\ ([]<>(~Running) \/ []<><<Next>>_vars)

Labels(bins) == [i \in DOMAIN bins |-> bins[i].label]

Position(xs, x) == CHOOSE i \in DOMAIN xs : xs[i] = x

Sheets == IF workbook.file = "xlsx" THEN workbook.sheets ELSE <<>>

KindsCollected == {collected[i].kind : i \in DOMAIN collected}

\* C7 as stated: every table written has a column for every generated time
\* bin and a cell for every (category, period) combination.
C7_EveryBinIsAColumn ==
    pc = "exported"
    => \A c \in DOMAIN Sheets :
          \A b \in DOMAIN time_bins :
              /\ time_bins[b].label \in Range(Sheets[c].columns)
              /\ \A k \in Sheets[c].index :
                    <<k, time_bins[b].label>> \in DOMAIN Sheets[c].cell

\* C8 as stated: once the run is over, the workbook holds a sheet for every
\* collection the lister returned.
C8_OneSheetPerCollection ==
    (pc \in {"exported", "nodata"} /\ script \in {"count_events_by_year", "example_5"})
    => /\ workbook.file = "xlsx"
       /\ DOMAIN Sheets = Range(collections)

\* C9: whatever the order in which the tasks complete, the columns of every
\* sheet are time-bin labels in the order the Time Partitioner generated
\* them.
C9_ColumnsInCanonicalOrder ==
    pc = "exported"
    => \A c \in DOMAIN Sheets :
          LET cols == Sheets[c].columns
          IN  /\ Range(cols) \subseteq Range(Labels(time_bins))
              /\ \A i, j \in DOMAIN cols :
                    i < j => Position(Labels(time_bins), cols[i])
                             < Position(Labels(time_bins), cols[j])

\* A sheet whose last column is the period that was discovered first.
C9_Witness ==
    /\ pc = "exported"
    /\ \E c \in DOMAIN Sheets :
          LET cols == Sheets[c].columns
          IN  /\ Len(cols) > 1
              /\ all_results[1].time_period = cols[Len(cols)]

ListingFailed ==
    CASE script = "example_5" ->
             \E i \in DOMAIN server.listing : ~server.listing[i].ok
      [] script \in {"count_events_by_year", "count_events_per_collection"} ->
             ~server.listing[1].ok
      [] OTHER -> FALSE

\* C11: when a request for the collection list fails, on whatever page, the
\* run ends at once: the lister returns nothing (collections of earlier
\* pages included), no task is ever submitted or run, no output is written.
C11_ListingFailureIsFatal ==
    ListingFailed
    => /\ pc \in {"start", "exit"}
       /\ collections = <<>>
       /\ time_bins = <<>>
       /\ pending = {}
       /\ finished = <<>>
       /\ collected = <<>>
       /\ workbook = NoFile

\* A run of example_5 ended by the failure of the listing's second page,
\* the first page having held an "-events" collection.
C11_Witness ==
    /\ script = "example_5"
    /\ pc = "exit"
    /\ Len(server.listing) = 2
    /\ server.listing[1].ok
    /\ ~server.listing[2].ok
    /\ HazardIds(server.listing[1].collections) # <<>>

\* The tasks of the task list: collections x time bins.
Tasks == Range(collections) \X (1..Len(time_bins))

CollectedTasks == {collected[i].task : i \in DOMAIN collected}

\* C13: once the tasks are submitted, each of them is at every moment
\* either still pending or collected, never both and never collected
\* twice; only a task a worker has run is collected; and when main() leaves
\* the collecting loop every task has been run and collected, whatever
\* tasks raised and in whatever order they completed.
C13_EveryTaskRunAndCollectedOnce ==
    pc \in {"collect", "exported", "nodata"}
    => /\ pending \cup CollectedTasks = Tasks
       /\ pending \cap CollectedTasks = {}
       /\ Cardinality(CollectedTasks) = Len(collected)
       /\ CollectedTasks \subseteq DOMAIN finished
       /\ DOMAIN finished \subseteq Tasks
       /\ pc \in {"exported", "nodata"}
           => (pending = {} /\ DOMAIN finished = Tasks)

\* A run collected to the end in which the first future yielded had raised
\* and a future yielded after it had completed.
C13_Witness ==
    /\ pc \in {"exported", "nodata"}
    /\ Len(collected) > 2
    /\ collected[1].kind = "raised"
    /\ \E i \in 2..Len(collected) : collected[i].kind = "ok"

\* What the workers have written to state they share: in the scripts the
\* only such state is ERROR_FILE, which fetch_time_chunk appends to from
\* the worker thread (main() only removes the file before the run).
WrittenByWorkers == errorLog

\* The sum of the tallies the tasks of S return.
RECURSIVE SumOfTallies(_)
SumOfTallies(S) ==
    IF S = {} THEN EmptyCounter
    ELSE LET t == CHOOSE x \in S : TRUE
             o == OutcomeOf(t)
         IN  CounterAdd(SumOfTallies(S \ {t}),
                        IF o.kind = "returned" THEN o.value.counter ELSE EmptyCounter)

\* The merged aggregate does not depend on the order of completion: it is
\* the sum of the tallies of the tasks.
MergedIsSumOfTallies ==
    (script = "example_3_optimized" /\ pc \in {"exported", "nodata"})
    => /\ combined = SumOfTallies(Tasks)
       /\ pc = "exported" => workbook.rows = combined

\* C14 as stated: the workers write to no state they share, and the merged
\* aggregate written to the output is the sum of the per-task results
\* whatever the completion order.
C14_WorkersShareNothing ==
    /\ WrittenByWorkers = <<>>
    /\ MergedIsSumOfTallies

\* The cells of a sheet that are not 0.
NonZero(sheet) == {kl \in DOMAIN sheet.cell : sheet.cell[kl] # 0}

\* The sheet has exactly one nonzero cell: n, in the column of bin b.
OnlyCell(sheet, b, n) ==
    /\ Cardinality(NonZero(sheet)) = 1
    /\ \A kl \in NonZero(sheet) :
          kl[2] = time_bins[b].label /\ sheet.cell[kl] = n

LinesAbout(label) ==
    Cardinality({j \in DOMAIN errorLog : errorLog[j].time_chunk = label})

\* C16 as stated: at the end of a run of example_3_optimized the error log
\* holds exactly one object for each task that failed, by giving up on its
\* retries or by raising, and none for a task that completed.
C16_ErrorLogComplete ==
    (script = "example_3_optimized" /\ pc \in {"exported", "nodata"})
    => \A i \in DOMAIN collected :
          LinesAbout(time_bins[collected[i].task[2]].label)
              = IF collected[i].kind = "ok" THEN 0 ELSE 1

\* C17 as stated: in the workbook of count_events_by_year, a (collection,
\* period) task whose fetch failed has no cell written for it: nothing in
\* the sheet of its collection presents a count for its period.
C17_FailedTaskHasNoCell ==
    (script = "count_events_by_year" /\ pc = "exported")
    => \A i \in DOMAIN collected :
          LET c == collected[i].task[1]
              l == time_bins[collected[i].task[2]].label
          IN  (collected[i].kind # "ok" /\ c \in DOMAIN Sheets)
              => \A k \in Sheets[c].index : <<k, l>> \notin DOMAIN Sheets[c].cell

\* What fetch_collection_count is to return for a collection when every
\* request is answered: the first of the three sources that is there.
PreferredCount(api) ==
    IF api[collection_url].monty_count # <<>>
    THEN api[collection_url].monty_count[1]
    ELSE IF api[items_url].numberMatched # <<>>
    THEN api[items_url].numberMatched[1]
    ELSE ItemsOnPages(DataPages, Len(DataPages))

\* The rows of the printed table about collection c.
RowsAbout(c) ==
    {i \in DOMAIN workbook.rows : workbook.rows[i].collection_id = c}

\* C18: fetch_collection_count asks for the metadata first; it sends an
\* items request (one at most) only when the summary has no count, and
\* requests pages of items only when numberMatched is missing too, after
\* the two; answered throughout, it returns the count of the first source
\* that is there.  However the tasks end, the table printed has exactly one
\* row for each listed collection.
C18_CountSourceFallbackOrder ==
    script = "count_events_per_collection"
    => /\ \A t \in DOMAIN finished :
             LET api  == CountApi(server.kind[t[1]])
                 reqs == finished[t]
             IN  /\ reqs[1] = collection_url
                 /\ \A i, j \in DOMAIN reqs : i < j => reqs[i] < reqs[j]
                 /\ items_url \in Range(reqs)
                        => api[collection_url].monty_count = <<>>
                 /\ (\E i \in DOMAIN reqs : reqs[i] >= 1)
                        => /\ api[items_url].numberMatched = <<>>
                           /\ reqs[2] = items_url
       /\ pc \in {"exported", "nodata"}
             => /\ pc = "exported"
                /\ Len(workbook.rows) = Len(collections)
                /\ \A c \in Range(collections) : Cardinality(RowsAbout(c)) = 1
                /\ \A i \in DOMAIN collected :
                      collected[i].kind = "ok"
                      => \A r \in RowsAbout(collected[i].task[1]) :
                            workbook.rows[r].total_events
                                = IntValue(PreferredCount(
                                      CountApi(server.kind[collected[i].task[1]])))

\* A table printed for two collections, one counted by paging through its
\* items and one whose task raised.
C18_Witness ==
    /\ script = "count_events_per_collection"
    /\ pc = "exported"
    /\ Len(workbook.rows) = 2
    /\ \E t \in DOMAIN finished : Len(finished[t]) = 4
    /\ \E i \in DOMAIN collected :
          /\ collected[i].kind = "ok"
          /\ server.kind[collected[i].task[1]] = "manual"
    /\ \E i \in DOMAIN collected : collected[i].kind = "raised"

\* C19 as stated: the tally fetch_counts_for_bin returns is the complete
\* tally over every page of the chain when no request failed, and empty
\* when a request failed.
C19_AllOrNothingTally ==
    (fetcher = "fetch_counts_for_bin" /\ task.status = "returned")
    => task.result.counts
           = IF FailureCount(requests) = 0
             THEN TallyPages(chain, 1, Len(chain))
             ELSE EmptyCounter

====
